---- MODULE Spec2Model ----
(***************************************************************************)
(* Model of the two custom operators of learn-rxjs:                        *)
(*   waitUntil (src/operators/wait_until.ts)                               *)
(*     input$ => combineLatest([input$, ...gates.map(o => o.pipe(take(1)))])*)
(*               .pipe(map(([value]) => value))                            *)
(*   pipeIf (src/operators/pipe_if.ts)                                     *)
(*     stream => defer(() => condition() ? truePipe(stream)                *)
(*                                       : falsePipe(stream))              *)
(* Sources are observables that push next/complete/error notifications;    *)
(* virtual time advances in frames as in the marble tests.                 *)
(***************************************************************************)
EXTENDS Integers, Sequences, FiniteSets, TLC

(* ---------------------------- bounds ----------------------------------- *)
MaxGates == 2          \* at most this many gating observables
MaxTime == 1           \* frames of virtual time in the free environment
MaxEvents == 4         \* notifications pushed by the sources of one waitUntil
MaxSync == 2            \* notifications the primary pushes while subscribed
MaxBurst == 1          \* notifications a source pushes synchronously on subscribe

(* ---------------------------- values ----------------------------------- *)
NONE == "none"
PVals == {"x", "y"}                 \* values of the primary stream
GVals == {"a"}                      \* values of the gates
ErrOf(i) == "e" \o ToString(i)      \* the error raised by source i

Next_(v) == [k |-> "N", v |-> v]
Complete_ == [k |-> "C", v |-> "|"]
Error_(e) == [k |-> "E", v |-> e]
At(t, ev) == [t |-> t, k |-> ev.k, v |-> ev.v]

(* The marble fixtures of wait_until.spec.ts, one symbol per frame.        *)
TestMarbles ==
  <<  <<"-", "x", "-", "y", "-", "-", "-", "-", "-", "z", "|">>,    \* x
      <<"-", "-", "-", "-", "-", "-", "a", "|">>,                   \* a
      <<"b", "|">>,                                                 \* b
      <<"-", "-", "c", "|">>  >>                                    \* c
TestExpected ==
  << [t |-> 6, k |-> "N", v |-> "y"], [t |-> 9, k |-> "N", v |-> "z"],
     [t |-> 10, k |-> "C", v |-> "|"] >>

VARIABLES
  now,          \* current frame of virtual time
  scripted,     \* TRUE: the sources play TestMarbles; FALSE: free environment
  fired,        \* scripted sources that have played their symbol of this frame
  observables,  \* the gates given to waitUntil, as the index set 1..n
  srcState,     \* per source: "live", "completed" or "errored"
  primLog,      \* what the primary pushed since the subscription, with frames
  events,       \* number of notifications the sources pushed so far
  last,         \* the source and kind of the latest notification pushed
  emitted,      \* per gate: it pushed a value since the subscription
  subscribed,   \* per source: the operator holds a subscription to it
  values,       \* combineLatest: latest value per input, NONE before the first
  active,       \* combineLatest: inputs that have not completed
  outState,     \* "idle", "open", "completed", "errored", "unsubscribed"
  out,          \* notifications delivered to the output's subscriber
  subCount,     \* per source: subscriptions the operator has made to it
  past,         \* per earlier subscription of the output: it got a value
  perm,         \* argument position of each gate in the twin; <<>>: no twin
  twin          \* waitUntil over the same sources, gates in the order perm

wvars == <<now, scripted, fired, observables, srcState, primLog, events, last,
           emitted, subscribed, values, active, outState, out, subCount, past,
           perm, twin>>

Srcs == {0} \cup observables
Gates(n) == 1..n

World ==
  [srcState |-> srcState, primLog |-> primLog, events |-> events,
   last |-> last, emitted |-> emitted, subscribed |-> subscribed,
   values |-> values,
   active |-> active, outState |-> outState, out |-> out,
   subCount |-> subCount]

Install(w) ==
  /\ srcState' = w.srcState
  /\ primLog' = w.primLog
  /\ events' = w.events
  /\ last' = w.last
  /\ emitted' = w.emitted
  /\ subscribed' = w.subscribed
  /\ values' = w.values
  /\ active' = w.active
  /\ outState' = w.outState
  /\ out' = w.out
  /\ subCount' = w.subCount

(* ------------------------ the operator --------------------------------- *)
\* (variant) the last element of the combined tuple is kept
mapLast(vals) ==
  vals[CHOOSE i \in DOMAIN vals : \A j \in DOMAIN vals : j <= i]

\* map(([value]) => value): the first element of the combined tuple
map(vals) == vals[0]

\* the output's subscriber receives a notification
Deliver(w, t, ev) == [w EXCEPT !.out = Append(@, At(t, ev))]

\* (variant) emits as soon as the primary and any one gate have responded
AllRespondedAny(w) ==
  /\ w.values[0] # NONE
  /\ \/ DOMAIN w.values = {0}
     \/ \E i \in DOMAIN w.values \ {0} : w.values[i] # NONE

\* (variant) emits once the primary and the last-listed input have responded
AllRespondedLastListed(w) ==
  /\ w.values[0] # NONE
  /\ \A i \in DOMAIN w.values : (\A j \in DOMAIN w.values : j <= i) =>
                                   w.values[i] # NONE

\* combineLatest emits once every input has responded
AllResponded(w) == \A i \in DOMAIN w.values : w.values[i] # NONE

\* (variant) a value equal to the input's previous one is not emitted again
combineLatestNextDistinct(w, i, v, t) ==
  LET w1 == [w EXCEPT !.values[i] = v]
  IN IF AllResponded(w1) /\ w.values[i] # v
     THEN Deliver(w1, t, Next_(map(w1.values))) ELSE w1

\* (variant) keeps the first value of an input instead of the latest
combineLatestNextFirst(w, i, v, t) ==
  LET w1 == IF w.values[i] = NONE THEN [w EXCEPT !.values[i] = v] ELSE w
  IN IF AllResponded(w1) THEN Deliver(w1, t, Next_(map(w1.values))) ELSE w1

combineLatestNext(w, i, v, t) ==
  LET w1 == [w EXCEPT !.values[i] = v]
  IN IF AllResponded(w1) THEN Deliver(w1, t, Next_(map(w1.values))) ELSE w1

\* (variant) the latest value of an input is dropped when the input completes
combineLatestCompleteForgets(w, i, t) ==
  LET w1 == [w EXCEPT !.active = @ \ {i}, !.subscribed[i] = FALSE,
                      !.values[i] = NONE]
  IN IF w1.active = {}
     THEN [Deliver(w1, t, Complete_) EXCEPT
             !.outState = "completed",
             !.subscribed = [j \in DOMAIN w.subscribed |-> FALSE]]
     ELSE w1

\* (variant) the completion of the last input is not passed on
combineLatestCompleteSilent(w, i, t) ==
  LET w1 == [w EXCEPT !.active = @ \ {i}, !.subscribed[i] = FALSE]
  IN IF w1.active = {}
     THEN [w1 EXCEPT
             !.outState = "completed",
             !.subscribed = [j \in DOMAIN w.subscribed |-> FALSE]]
     ELSE w1

\* (variant) the output completes as soon as the primary completes
combineLatestCompleteOnPrimary(w, i, t) ==
  LET w1 == [w EXCEPT !.active = @ \ {i}, !.subscribed[i] = FALSE]
  IN IF w1.active = {} \/ i = 0
     THEN [Deliver(w1, t, Complete_) EXCEPT
             !.outState = "completed",
             !.subscribed = [j \in DOMAIN w.subscribed |-> FALSE]]
     ELSE w1

combineLatestComplete(w, i, t) ==
  LET w1 == [w EXCEPT !.active = @ \ {i}, !.subscribed[i] = FALSE]
  IN IF w1.active = {}
     THEN [Deliver(w1, t, Complete_) EXCEPT
             !.outState = "completed",
             !.subscribed = [j \in DOMAIN w.subscribed |-> FALSE]]
     ELSE w1

\* (variant) an error ends only the input that raised it
combineLatestErrorNotTerminal(w, i, e, t) ==
  [Deliver(w, t, Error_(e)) EXCEPT
     !.active = @ \ {i}, !.subscribed[i] = FALSE]

\* (variant) the error is delivered but nothing is torn down
combineLatestErrorKeepOpen(w, i, e, t) == Deliver(w, t, Error_(e))

combineLatestError(w, i, e, t) ==
  [Deliver(w, t, Error_(e)) EXCEPT
     !.outState = "errored",
     !.subscribed = [j \in DOMAIN w.subscribed |-> FALSE]]

\* (variant) the gate's first value only ends the gate
takeIgnoresValue(w, i, v, t) == combineLatestComplete(w, i, t)

\* (variant) the gate is not limited to its first value
takeNoRelease(w, i, v, t) == combineLatestNext(w, i, v, t)

\* (variant) the gate's value is recorded but never triggers an emission
takeSilent(w, i, v, t) ==
  combineLatestComplete([w EXCEPT !.values[i] = v], i, t)

\* take(1) on a gate: the first value is forwarded, then the gate's inner
\* subscription completes and the gate is unsubscribed
take(w, i, v, t) ==
  LET w1 == combineLatestNext(w, i, v, t)
  IN combineLatestComplete(w1, i, t)

\* (variant) errors of gates are swallowed
OnEventGateErrorsSwallowed(w, i, ev, t) ==
  IF ~w.subscribed[i] \/ w.outState # "open" THEN w
  ELSE CASE ev.k = "N" -> IF i = 0 THEN combineLatestNext(w, i, ev.v, t)
                                   ELSE take(w, i, ev.v, t)
         [] ev.k = "C" -> combineLatestComplete(w, i, t)
         [] ev.k = "E" -> IF i = 0 THEN combineLatestError(w, i, ev.v, t)
                                   ELSE w

\* one notification of source i reaches the operator (if it is subscribed)
OnEvent(w, i, ev, t) ==
  IF ~w.subscribed[i] \/ w.outState # "open" THEN w
  ELSE CASE ev.k = "N" -> IF i = 0 THEN combineLatestNext(w, i, ev.v, t)
                                   ELSE take(w, i, ev.v, t)
         [] ev.k = "C" -> combineLatestComplete(w, i, t)
         [] ev.k = "E" -> combineLatestError(w, i, ev.v, t)

\* source i pushes a notification: the environment's record, then the operator
Push(w, i, ev, t) ==
  LET w1 == [w EXCEPT
        !.srcState[i] = CASE ev.k = "C" -> "completed"
                          [] ev.k = "E" -> "errored"
                          [] OTHER -> @,
        !.primLog = IF i = 0 THEN Append(@, At(t, ev)) ELSE @,
        !.events = @ + 1,
        !.last = [src |-> i, k |-> ev.k],
        !.emitted[i] = @ \/ (i # 0 /\ ev.k = "N")]
  IN OnEvent(w1, i, ev, t)

RECURSIVE PushAll(_, _, _, _)
PushAll(w, i, evs, t) ==
  IF evs = <<>> THEN w
  ELSE PushAll(Push(w, i, Head(evs), t), i, Tail(evs), t)

\* (variant) the inputs are subscribed from the last to the first
RECURSIVE SubscribeFromLastFirst(_, _, _, _, _)
SubscribeFromLastFirst(w, i, n, burst, t) ==
  IF i > n \/ w.outState # "open" THEN w
  ELSE LET w1 == [w EXCEPT !.subscribed[n - i] = TRUE,
                           !.subCount[n - i] = @ + 1]
       IN SubscribeFromLastFirst(PushAll(w1, n - i, burst[n - i], t),
                                 i + 1, n, burst, t)

\* combineLatest subscribes to its inputs in array order; a source may push
\* notifications synchronously while it is being subscribed
RECURSIVE SubscribeFrom(_, _, _, _, _)
SubscribeFrom(w, i, n, burst, t) ==
  IF i > n \/ w.outState # "open" THEN w
  ELSE LET w1 == [w EXCEPT !.subscribed[i] = TRUE, !.subCount[i] = @ + 1]
       IN SubscribeFrom(PushAll(w1, i, burst[i], t), i + 1, n, burst, t)

(* ------------------------ the environment ------------------------------ *)
\* the symbol of source i at frame t in the marble fixtures
Symbol(i, t) ==
  IF t + 1 <= Len(TestMarbles[i + 1]) THEN TestMarbles[i + 1][t + 1] ELSE "-"

ValsOf(i) ==
  IF scripted
  THEN {TestMarbles[i + 1][j] : j \in 1..Len(TestMarbles[i + 1])} \ {"-", "|"}
  ELSE IF i = 0 THEN PVals ELSE GVals

EventsOf(i) ==
  {Next_(v) : v \in ValsOf(i)} \cup {Complete_, Error_(ErrOf(i))}

IsTerminal(ev) == ev.k # "N"

\* what one source can push synchronously during subscribe (the marbles of
\* the test push nothing in the frame of the subscription but gate b's value,
\* which is played as the first notification of frame 0)
Bursts(i) ==
  IF scripted THEN {<<>>}
  ELSE {b \in UNION {[1..len -> EventsOf(i)] : len \in 0..MaxBurst} :
          \A j \in 1..Len(b) : IsTerminal(b[j]) => j = Len(b)}

\* what the primary can push synchronously when it pushes several values
SynchronousBursts ==
  {b \in UNION {[1..len -> EventsOf(0)] : len \in 0..MaxSync} :
     \A j \in 1..Len(b) : IsTerminal(b[j]) => j = Len(b)}

\* the burst b of a gate, as pushed by gate i (its error is gate i's own)
PushedBy(i, b) ==
  [j \in 1..Len(b) |-> IF b[j].k = "E" THEN Error_(ErrOf(i)) ELSE b[j]]

EventOfSymbol(i, s) ==
  CASE s = "|" -> Complete_
    [] s = "#" -> Error_(ErrOf(i))
    [] OTHER -> Next_(s)

(* ======================== pipeIf ======================================= *)
MaxSubs == 2           \* subscriptions to one pipeIf-wrapped pipeline
MaxUp == 2             \* upstream notifications over all subscriptions

\* values of the upstream
UVals == IF scripted THEN {"X", "y", "z"} ELSE {"X", "y"}
\* the marble fixture of the pipeIf test: cold('X-y-z|')
PipeMarble == <<"X", "-", "y", "-", "z", "|">>
PipeExpectedTrue == <<"X", "-", "-", "-", "Z", "|">>
PipeExpectedFalse == <<"x", "-", "y", "-", "z", "|">>

toUpperCase(v) ==
  CASE v \in {"x", "X"} -> "X" [] v \in {"y", "Y"} -> "Y"
    [] v \in {"z", "Z"} -> "Z" [] OTHER -> v
toLowerCase(v) ==
  CASE v \in {"x", "X"} -> "x" [] v \in {"y", "Y"} -> "y"
    [] v \in {"z", "Z"} -> "z" [] OTHER -> v

VARIABLES
  condition,    \* the variable the predicate () => condition reads
  pstage,       \* "none": nothing built; "applied": x.pipe(pipeIf(...)) built
  condAtBuild,  \* value of the variable when the pipeline was built
  condEvals,    \* number of calls of the predicate so far
  psubs,        \* the subscriptions to the pipeline, in order of creation
  calls,        \* the functions the pipeline has called so far, in order
  throws,       \* which call throws: "none", "condition" or "pipe"
  pevents       \* number of notifications the upstream pushed so far

pvars == <<condition, pstage, condAtBuild, condEvals, psubs, calls, throws,
          pevents>>

(* ============ the rxjs primitives shown by the other tests ============= *)
MaxCL == 5             \* notifications pushed to combineLatest and takeUntil

MaxObservers == 3      \* subscribers of one shared observable
MaxValues == 2         \* values the cold source pushes before it completes

MaxOuter == 3          \* values the outer observable of switchMap pushes
MaxInner == 1          \* values each inner observable pushes

VARIABLES
  cl,           \* combineLatest([x, y]), alone or with takeUntil(n)
  mc,           \* a cold source shared by multicast + refCount or shareReplay
  sm            \* o.pipe(switchMap(v => inner[v]))

lvars == <<cl, mc, sm>>

\* values of the two inputs: cold('-x-y-z-|') and cold('--a-b|')
CLVals(i) == IF i = 0 THEN {"x", "y"} ELSE {"a", "b"}
\* where takeUntil(n) stands: nowhere, after combineLatest, or before it on x
Places == {"none", "after", "before"}

\* combineLatest([x, y]) before it is subscribed
CombineLatest(place) ==
  [place |-> place,
   srcState |-> [i \in 0..1 |-> "live"],
   log |-> [i \in 0..1 |-> <<>>],
   last |-> [src |-> -1, k |-> "-"],
   n |-> 0,
   subscribed |-> [i \in 0..1 |-> FALSE],
   subs |-> [i \in 0..1 |-> 0],
   notifier |-> FALSE,
   values |-> [i \in 0..1 |-> NONE],
   active |-> 0..1,
   outState |-> "idle",
   out |-> <<>>]

\* how the source is shared: multicast(new Subject()), refCount();
\* multicast(() => new Subject()), refCount(); publishReplay(1), refCount();
\* shareReplay(1)
Kinds == {"subject", "factory", "publishReplay", "shareReplay"}
Replays(kind) == kind \in {"publishReplay", "shareReplay"}

\* the shared observable before its first subscription; a Subject given as
\* an instance exists from the start
Multicast(kind) ==
  [kind |-> kind,
   connection |-> FALSE,
   sourceSubs |-> 0,
   pos |-> 0,
   srcDone |-> FALSE,
   subject |-> IF kind \in {"subject", "publishReplay"} THEN "live" ELSE "none",
   buffer |-> NONE,
   observers |-> <<>>]

\* o.pipe(switchMap(...)) before it is subscribed; the inner observables are
\* numbered by the outer value that selects them
SwitchMap ==
  [outer |-> "idle",
   count |-> 0,
   innerState |-> [i \in 1..MaxOuter |-> "unused"],
   pushed |-> [i \in 1..MaxOuter |-> 0],
   inner |-> {},
   log |-> <<>>,
   outState |-> "idle",
   out |-> <<>>]

\* none of these primitives is in use
LIdle ==
  cl = CombineLatest("none") /\ mc = Multicast("subject") /\ sm = SwitchMap

PWorld == [condition |-> condition, condEvals |-> condEvals, psubs |-> psubs,
           calls |-> calls]

PInstall(p) ==
  /\ condition' = p.condition
  /\ condEvals' = p.condEvals
  /\ psubs' = p.psubs
  /\ calls' = p.calls

\* what the calls inside the function given to defer do: return, or the
\* predicate throws, or the selected pipe throws when applied to the stream
Throws == {"none", "condition", "pipe"}
Thrown == "thrown"

\* filter(v => v !== 'y'), as a subscriber: forwards or drops one value
filter(v) == IF v # "y" THEN <<v>> ELSE <<>>

\* truePipe = pipe(filter(v => v !== 'y'), map(v => v.toUpperCase()))
truePipe(v) == [j \in 1..Len(filter(v)) |-> toUpperCase(filter(v)[j])]

\* falsePipe = map(v => v.toLowerCase())
falsePipe(v) == <<toLowerCase(v)>>

\* (variant) the two pipes are swapped
factorySwapped(c) == IF c THEN "false" ELSE "true"

\* the function given to defer: calls the predicate, selects one pipe
factory(c) == IF c THEN "true" ELSE "false"

\* (variant) both pipes are applied to the stream, as with iif
factoryCallsBoth(c, thr) ==
  IF thr = "condition" THEN <<"condition">>
  ELSE <<"condition", "truePipe", "falsePipe">>

\* the calls the function given to defer makes, in order
factoryCalls(c, thr) ==
  IF thr = "condition" THEN <<"condition">>
  ELSE <<"condition", IF factory(c) = "true" THEN "truePipe" ELSE "falsePipe">>

\* (variant) an exception of the factory leaves subscribe() as an exception
deferNoCatch(sub, exc, t) == [sub EXCEPT !.state = "threw"]

\* defer: an exception of the factory becomes an error notification
deferCatch(sub, exc, t) ==
  [sub EXCEPT !.state = "errored", !.out = <<At(t, Error_(exc))>>]

\* (variant) the predicate is called for the first subscription only
iifOnce(p) ==
  IF p.psubs = <<>> THEN (IF p.condition THEN "true" ELSE "false")
  ELSE p.psubs[1].iifBranch

\* iif(() => condition, truePipe(stream), falsePipe(stream)): the branch a
\* subscription gets, selected by the predicate when it subscribes
iif(p) == IF p.condition THEN "true" ELSE "false"

\* defer(...).subscribe: run the factory, subscribe to what it returns; next
\* to it, the subscription of the iif pipeline built from the same pipes
subscribe(p, t, thr) ==
  LET sub == [branch |-> IF thr = "condition" THEN NONE
                         ELSE factory(p.condition),
              iifBranch |-> IF thr = "none" THEN iif(p) ELSE NONE,
              iifOut |-> IF thr = "condition" THEN <<At(t, Error_(Thrown))>>
                         ELSE <<>>,
              condAtSub |-> p.condition, thrown |-> thr,
              t0 |-> t, played |-> -1, state |-> "open",
              upLog |-> <<>>, out |-> <<>>]
  IN [p EXCEPT
        !.condEvals = @ + 1,
        !.calls = @ \o factoryCalls(p.condition, thr)
                    \o (IF thr = "none" THEN <<"subscribe">> ELSE <<>>),
        !.psubs = Append(@, IF thr = "none" THEN sub
                            ELSE deferCatch(sub, Thrown, t))]

\* (variant) the branch follows the current value of the variable
branchOfCurrent(p, s) == factory(p.condition)

\* the branch through which subscription s receives upstream notifications
branchOf(p, s) == p.psubs[s].branch

\* (variant) an upstream error ends the subscription as a completion
onUpstreamErrorsAsComplete(p, s, ev, t) ==
  LET sub == p.psubs[s]
      vs == IF ev.k = "E" THEN <<Complete_>>
            ELSE IF ev.k = "C" THEN <<ev>>
            ELSE LET r == IF branchOf(p, s) = "true" THEN truePipe(ev.v)
                                                    ELSE falsePipe(ev.v)
                 IN [j \in 1..Len(r) |-> Next_(r[j])]
  IN [p EXCEPT !.psubs[s] =
        [sub EXCEPT
           !.upLog = Append(@, At(t, ev)),
           !.out = @ \o [j \in 1..Len(vs) |-> At(t, vs[j])],
           !.state = CASE ev.k = "C" -> "completed"
                       [] ev.k = "E" -> "completed"
                       [] OTHER -> @]]

\* one upstream notification arrives at subscription s
onUpstream(p, s, ev, t) ==
  LET sub == p.psubs[s]
      vs == IF ev.k # "N" THEN <<ev>>
            ELSE LET r == IF branchOf(p, s) = "true" THEN truePipe(ev.v)
                                                    ELSE falsePipe(ev.v)
                 IN [j \in 1..Len(r) |-> Next_(r[j])]
      ws == IF ev.k # "N" THEN <<ev>>
            ELSE LET r == IF sub.iifBranch = "true" THEN truePipe(ev.v)
                                                   ELSE falsePipe(ev.v)
                 IN [j \in 1..Len(r) |-> Next_(r[j])]
  IN [p EXCEPT !.psubs[s] =
        [sub EXCEPT
           !.upLog = Append(@, At(t, ev)),
           !.out = @ \o [j \in 1..Len(vs) |-> At(t, vs[j])],
           !.iifOut = @ \o [j \in 1..Len(ws) |-> At(t, ws[j])],
           !.state = CASE ev.k = "C" -> "completed"
                       [] ev.k = "E" -> "errored"
                       [] OTHER -> @]]

(* ------------------ waitUntil: initial state and steps ----------------- *)
\* the orders in which the gates can be passed to waitUntil
Perms == {f \in [Srcs -> Srcs] : f[0] = 0 /\ \A i, j \in Srcs : f[i] = f[j] => i = j}
PermInv(pos) == CHOOSE i \in Srcs : perm[i] = pos
Unpaired == perm = <<>> /\ twin = <<>>

\* the subscriber of the output unsubscribes
unsubscribe(w) ==
  [w EXCEPT !.outState = "unsubscribed",
            !.subscribed = [i \in DOMAIN w.subscribed |-> FALSE]]

\* (variant) a new subscription finds the latest values of the previous one
FreshKeepsValues(w) ==
  [w EXCEPT
     !.srcState = [i \in DOMAIN w.srcState |-> "live"],
     !.primLog = <<>>,
     !.last = [src |-> -1, k |-> "-"],
     !.emitted = [i \in DOMAIN w.emitted |-> FALSE],
     !.subscribed = [i \in DOMAIN w.subscribed |-> FALSE],
     !.active = DOMAIN w.values,
     !.outState = "open",
     !.out = <<>>]

\* a new subscription: combineLatest starts without values, the cold sources
\* start again, the new subscriber has received nothing
Fresh(w) ==
  [w EXCEPT
     !.srcState = [i \in DOMAIN w.srcState |-> "live"],
     !.primLog = <<>>,
     !.last = [src |-> -1, k |-> "-"],
     !.emitted = [i \in DOMAIN w.emitted |-> FALSE],
     !.subscribed = [i \in DOMAIN w.subscribed |-> FALSE],
     !.values = [i \in DOMAIN w.values |-> NONE],
     !.active = DOMAIN w.values,
     !.outState = "open",
     !.out = <<>>]

WInit ==
  /\ now = 0
  /\ scripted \in BOOLEAN
  /\ fired = {}
  /\ observables \in IF scripted THEN {Gates(3)}
                                 ELSE {Gates(n) : n \in 0..MaxGates}
  /\ srcState = [i \in Srcs |-> "live"]
  /\ primLog = <<>>
  /\ events = 0
  /\ last = [src |-> -1, k |-> "-"]
  /\ emitted = [i \in Srcs |-> FALSE]
  /\ subscribed = [i \in Srcs |-> FALSE]
  /\ values = [i \in Srcs |-> NONE]
  /\ active = Srcs
  /\ outState = "idle"
  /\ out = <<>>
  /\ subCount = [i \in Srcs |-> 0]
  /\ past = <<>>

\* o.subscribe(...): the output is subscribed
Subscribe ==
  /\ outState = "idle"
  /\ \E bp \in Bursts(0) : \E bg \in [observables -> Bursts(1)] :
       LET burst == [i \in Srcs |-> IF i = 0 THEN bp ELSE PushedBy(i, bg[i])]
       IN /\ Install(SubscribeFrom([World EXCEPT !.outState = "open"],
                                   0, Cardinality(observables), burst, now))
          /\ twin' = IF perm = <<>> THEN twin
                     ELSE SubscribeFrom([twin EXCEPT !.outState = "open"],
                            0, Cardinality(observables),
                            [pos \in Srcs |-> burst[PermInv(pos)]], now)
  /\ UNCHANGED <<now, scripted, fired, observables, past, perm, pvars, lvars>>

\* o.subscribe(...) with a primary that pushes up to MaxSync notifications
\* synchronously
SubscribeSynchronous ==
  /\ outState = "idle"
  /\ ~scripted
  /\ \E bp \in SynchronousBursts : \E bg \in [observables -> Bursts(1)] :
       LET burst == [i \in Srcs |-> IF i = 0 THEN bp ELSE PushedBy(i, bg[i])]
       IN Install(SubscribeFrom([World EXCEPT !.outState = "open"],
                                0, Cardinality(observables), burst, now))
  /\ UNCHANGED <<now, scripted, fired, observables, past, perm, twin, pvars, lvars>>

\* the output, terminated or unsubscribed, is subscribed again; the sources
\* push nothing while they are subscribed again
Resubscribe ==
  /\ outState \in {"completed", "errored", "unsubscribed"}
  /\ ~scripted
  /\ Len(past) + 1 < MaxSubs
  /\ past' = Append(past, \E j \in 1..Len(out) : out[j].k = "N")
  /\ Install(SubscribeFrom(Fresh(World), 0, Cardinality(observables),
                           [i \in Srcs |-> <<>>], now))
  /\ UNCHANGED <<now, scripted, fired, observables, perm, twin, pvars, lvars>>

\* source i pushes one notification asynchronously
SourceEvent(i, ev) ==
  /\ outState # "idle"
  /\ srcState[i] = "live"
  /\ IF scripted
     THEN /\ i \notin fired
          /\ Symbol(i, now) # "-"
          /\ ev = EventOfSymbol(i, Symbol(i, now))
          /\ subscribed[i]          \* a cold source plays only while subscribed
          /\ fired' = fired \cup {i}
     ELSE /\ events < MaxEvents
          /\ fired' = fired
  /\ Install(Push(World, i, ev, now))
  /\ twin' = IF perm = <<>> THEN twin ELSE Push(twin, perm[i], ev, now)
  /\ UNCHANGED <<now, scripted, observables, past, perm, pvars, lvars>>

SourceNext == \E i \in Srcs : \E ev \in EventsOf(i) :
                ev.k = "N" /\ SourceEvent(i, ev)
SourceComplete == \E i \in Srcs : SourceEvent(i, Complete_)
SourceError == \E i \in Srcs : SourceEvent(i, Error_(ErrOf(i)))

\* (variant) only the primary is unsubscribed
UnsubscribeLeakGates ==
  /\ outState = "open"
  /\ outState' = "unsubscribed"
  /\ subscribed' = [subscribed EXCEPT ![0] = FALSE]
  /\ twin' = IF perm = <<>> THEN twin ELSE unsubscribe(twin)
  /\ UNCHANGED <<now, scripted, fired, observables, srcState, primLog,
                 events, last, emitted, values, active, out, subCount, past,
                 perm, pvars, lvars>>

\* the subscriber of the output unsubscribes
Unsubscribe ==
  /\ outState = "open"
  /\ outState' = "unsubscribed"
  /\ subscribed' = [i \in Srcs |-> FALSE]
  /\ twin' = IF perm = <<>> THEN twin ELSE unsubscribe(twin)
  /\ UNCHANGED <<now, scripted, fired, observables, srcState, primLog,
                 events, last, emitted, values, active, out, subCount, past,
                 perm, pvars, lvars>>

\* (variant) a timer: at every frame the latest value of the primary is
\* delivered again
TickPolls ==
  /\ IF scripted
     THEN /\ now + 1 < Len(TestMarbles[1])
          /\ outState # "idle"
          /\ \A i \in Srcs :
               (subscribed[i] /\ srcState[i] = "live" /\ Symbol(i, now) # "-")
                 => i \in fired
     ELSE now < MaxTime
  /\ now' = now + 1
  /\ fired' = {}
  /\ out' = IF outState = "open" /\ values[0] # NONE
            THEN Append(out, At(now + 1, Next_(values[0])))
            ELSE out
  /\ UNCHANGED <<observables, scripted, srcState, primLog, events, last,
                 emitted, subscribed, values, active, outState, subCount,
                 past, perm, twin, pvars, lvars>>

\* virtual time advances by one frame
Tick ==
  /\ IF scripted
     THEN /\ now + 1 < Len(TestMarbles[1])
          /\ outState # "idle"
          /\ \A i \in Srcs :
               (subscribed[i] /\ srcState[i] = "live" /\ Symbol(i, now) # "-")
                 => i \in fired
     ELSE now < MaxTime
  /\ now' = now + 1
  /\ fired' = {}
  /\ UNCHANGED <<observables, scripted, srcState, primLog, events, last,
                 emitted, subscribed, values, active, outState, out, subCount,
                 past, perm, twin, pvars, lvars>>

(* ------------------ pipeIf: initial state and steps -------------------- *)
PSymbol(rel) == IF rel + 1 <= Len(PipeMarble) THEN PipeMarble[rel + 1] ELSE "-"

PIdle ==
  /\ condition = FALSE
  /\ pstage = "none"
  /\ condAtBuild = FALSE
  /\ condEvals = 0
  /\ psubs = <<>>
  /\ calls = <<>>
  /\ throws = "none"
  /\ pevents = 0

WIdle ==
  /\ fired = {}
  /\ observables = {}
  /\ srcState = [i \in Srcs |-> "live"]
  /\ primLog = <<>>
  /\ events = 0
  /\ last = [src |-> -1, k |-> "-"]
  /\ emitted = [i \in Srcs |-> FALSE]
  /\ subscribed = [i \in Srcs |-> FALSE]
  /\ values = [i \in Srcs |-> NONE]
  /\ active = Srcs
  /\ outState = "idle"
  /\ out = <<>>
  /\ subCount = [i \in Srcs |-> 0]
  /\ past = <<>>

wstate == <<fired, observables, srcState, primLog, events, last, emitted,
            subscribed, values, active, outState, out, subCount, past, perm,
            twin>>

PInit ==
  /\ now = 0
  /\ scripted \in BOOLEAN
  /\ WIdle
  /\ Unpaired
  /\ condition \in BOOLEAN
  /\ pstage = "none"
  /\ condAtBuild = FALSE
  /\ condEvals = 0
  /\ psubs = <<>>
  /\ calls = <<>>
  /\ throws \in IF scripted THEN {"none"} ELSE Throws
  /\ pevents = 0
  /\ LIdle

\* (variant) the predicate is called while the pipeline is built
BuildEager ==
  /\ pstage = "none"
  /\ pstage' = "applied"
  /\ condAtBuild' = condition
  /\ condEvals' = condEvals + 1
  /\ UNCHANGED <<condition, psubs, calls, throws, pevents, now, scripted,
                 wstate, lvars>>

\* const o = x.pipe(pipeIf(() => condition, truePipe, falsePipe))
Build ==
  /\ pstage = "none"
  /\ pstage' = "applied"
  /\ condAtBuild' = condition
  /\ UNCHANGED <<condition, condEvals, psubs, calls, throws, pevents, now,
                 scripted, wstate, lvars>>

\* the test assigns the variable: condition = externalCondition
SetCondition ==
  /\ \E b \in BOOLEAN : b # condition /\ condition' = b
  /\ UNCHANGED <<pstage, condAtBuild, condEvals, psubs, calls, throws, pevents,
                 now, scripted, wstate, lvars>>

\* o.subscribe(...)
PSubscribe ==
  /\ pstage = "applied"
  /\ Len(psubs) < MaxSubs
  /\ scripted => now <= MaxTime
  /\ PInstall(subscribe(PWorld, now, throws))
  /\ UNCHANGED <<pstage, condAtBuild, throws, pevents, now, scripted, wstate, lvars>>

\* the cold upstream pushes a notification to the subscriber of subscription s
Upstream(s, ev) ==
  /\ psubs[s].state = "open"
  /\ IF scripted
     THEN /\ PSymbol(now - psubs[s].t0) # "-"
          /\ psubs[s].played < now - psubs[s].t0
          /\ ev = EventOfSymbol(0, PSymbol(now - psubs[s].t0))
          /\ PInstall([onUpstream(PWorld, s, ev, now) EXCEPT
                         !.psubs[s].played = now - psubs[s].t0])
     ELSE /\ pevents < MaxUp
          /\ PInstall(onUpstream(PWorld, s, ev, now))
  /\ pevents' = pevents + 1
  /\ UNCHANGED <<pstage, condAtBuild, throws, now, scripted, wstate, lvars>>

UpstreamNext == \E s \in DOMAIN psubs : \E v \in UVals : Upstream(s, Next_(v))
UpstreamComplete == \E s \in DOMAIN psubs : Upstream(s, Complete_)
UpstreamError == \E s \in DOMAIN psubs : Upstream(s, Error_(ErrOf(0)))

PTick ==
  /\ IF scripted
     THEN /\ now < MaxTime + Len(PipeMarble)
          /\ \A s \in DOMAIN psubs :
               (psubs[s].state = "open" /\ PSymbol(now - psubs[s].t0) # "-")
                 => psubs[s].played = now - psubs[s].t0
     ELSE now < MaxTime
  /\ now' = now + 1
  /\ UNCHANGED <<pvars, scripted, wstate, lvars>>

PNext ==
  \/ Build
  \/ SetCondition
  \/ PSubscribe
  \/ UpstreamNext
  \/ UpstreamComplete
  \/ UpstreamError
  \/ PTick

(* ---------------- combineLatest([x, y]) and takeUntil(n) ---------------- *)
\* (variant) an input's first value is kept instead of its latest
combineLatestTupleFirst(w, i, v, t) ==
  LET w1 == IF w.values[i] = NONE THEN [w EXCEPT !.values[i] = v] ELSE w
  IN IF AllResponded(w1)
     THEN Deliver(w1, t, Next_(<<w1.values[0], w1.values[1]>>)) ELSE w1

\* combineLatest without a projection: the tuple of the latest values, once
\* every input has a value
combineLatestTuple(w, i, v, t) ==
  LET w1 == [w EXCEPT !.values[i] = v]
  IN IF AllResponded(w1)
     THEN Deliver(w1, t, Next_(<<w1.values[0], w1.values[1]>>)) ELSE w1

\* takeUntil unsubscribes its notifier when its own subscription ends
release(w) ==
  IF w.outState # "open" \/ (w.place = "before" /\ ~w.subscribed[0])
  THEN [w EXCEPT !.notifier = FALSE] ELSE w

\* (variant) takeUntil after combineLatest only ends the first input
takeUntilAfterLeaks(w, t) ==
  release([Deliver(w, t, Complete_) EXCEPT
             !.outState = "completed", !.subscribed[0] = FALSE])

\* combineLatest([x, y]).pipe(takeUntil(n)): the notifier's value completes
\* the output and unsubscribes combineLatest, hence both inputs
takeUntilAfter(w, t) ==
  release([Deliver(w, t, Complete_) EXCEPT
             !.outState = "completed",
             !.subscribed = [j \in DOMAIN w.subscribed |-> FALSE]])

\* combineLatest([x.pipe(takeUntil(n)), y]): the notifier's value completes
\* the first input of combineLatest and unsubscribes x
takeUntilBefore(w, t) == release(combineLatestComplete(w, 0, t))

\* source i pushes a notification to combineLatest (through takeUntil, which
\* passes it on, when it stands before)
onSource(w, i, ev, t) ==
  LET w1 == [w EXCEPT
        !.srcState[i] = CASE ev.k = "C" -> "completed"
                          [] ev.k = "E" -> "errored"
                          [] OTHER -> @,
        !.log[i] = IF ev.k = "N" THEN Append(@, ev.v) ELSE @,
        !.last = [src |-> i, k |-> ev.k],
        !.n = @ + 1]
  IN release(CASE ev.k = "N" -> combineLatestTuple(w1, i, ev.v, t)
               [] ev.k = "C" -> combineLatestComplete(w1, i, t)
               [] ev.k = "E" -> combineLatestError(w1, i, ev.v, t))

\* expect(o).toBeObservable(e): the output is subscribed; takeUntil subscribes
\* to its notifier, combineLatest to x and y
CLSubscribe ==
  /\ cl.outState = "idle"
  /\ cl' = [cl EXCEPT !.outState = "open",
                      !.subscribed = [i \in 0..1 |-> TRUE],
                      !.subs = [i \in 0..1 |-> @[i] + 1],
                      !.notifier = (cl.place # "none")]
  /\ UNCHANGED <<wvars, pvars, mc, sm>>

\* a cold input pushes while it is subscribed
CLSource(i, ev) ==
  /\ cl.subscribed[i]
  /\ cl.n < MaxCL
  /\ cl' = onSource(cl, i, ev, cl.n + 1)
  /\ UNCHANGED <<wvars, pvars, mc, sm>>

CLNext == \E i \in 0..1 : \E v \in CLVals(i) : CLSource(i, Next_(v))
CLComplete == \E i \in 0..1 : CLSource(i, Complete_)
CLError == \E i \in 0..1 : CLSource(i, Error_(ErrOf(i)))

\* the notifier n pushes its value
Notify ==
  /\ cl.notifier
  /\ cl.n < MaxCL
  /\ LET w == [cl EXCEPT !.n = @ + 1, !.last = [src |-> 2, k |-> "N"]]
     IN cl' = IF cl.place = "after" THEN takeUntilAfter(w, cl.n + 1)
              ELSE takeUntilBefore(w, cl.n + 1)
  /\ UNCHANGED <<wvars, pvars, mc, sm>>

\* the notifier completes without a value: takeUntil goes on without it
NotifierComplete ==
  /\ cl.notifier
  /\ cl.n < MaxCL
  /\ cl' = [cl EXCEPT !.n = @ + 1, !.last = [src |-> 2, k |-> "C"],
                      !.notifier = FALSE]
  /\ UNCHANGED <<wvars, pvars, mc, sm>>

\* the subscriber of the output unsubscribes
CLUnsubscribe ==
  /\ cl.outState = "open"
  /\ cl' = release([cl EXCEPT !.outState = "unsubscribed",
                              !.subscribed = [i \in 0..1 |-> FALSE]])
  /\ UNCHANGED <<wvars, pvars, mc, sm>>

\* neither waitUntil nor pipeIf is in use
Idle == now = 0 /\ scripted = FALSE /\ WIdle /\ Unpaired /\ PIdle

InitCombineLatest ==
  /\ Idle /\ mc = Multicast("subject") /\ sm = SwitchMap
  /\ cl \in {CombineLatest(p) : p \in Places}
NextCombineLatest ==
  \/ CLSubscribe
  \/ CLNext
  \/ CLComplete
  \/ CLError
  \/ Notify
  \/ NotifierComplete
  \/ CLUnsubscribe

(* ------------- multicast + refCount, publishReplay, shareReplay --------- *)
\* subscribers that are subscribed and have not been completed
Open(m) ==
  Cardinality({s \in DOMAIN m.observers : m.observers[s].state = "open"})

\* (variant) the factory's Subject is kept after it has completed
getSubjectOnce(m) ==
  IF m.subject = "none"
  THEN [m EXCEPT !.subject = "live", !.buffer = NONE] ELSE m

\* the Subject the subscribers attach to: the instance given, or a new one
\* from the factory when there is none or the previous one has completed
getSubject(m) ==
  IF m.subject = "none" \/ (m.subject = "stopped" /\ m.kind = "factory")
  THEN [m EXCEPT !.subject = "live", !.buffer = NONE] ELSE m

\* what a ReplaySubject(1) hands to a new subscriber
replay(m) ==
  IF Replays(m.kind) /\ m.buffer # NONE THEN <<Next_(m.buffer)>> ELSE <<>>

\* the source is subscribed unless it is already
connect(m) ==
  IF m.connection THEN m
  ELSE [m EXCEPT !.connection = TRUE, !.sourceSubs = @ + 1, !.pos = 0,
                 !.srcDone = FALSE]

\* a subscriber attaches to the Subject: a completed Subject completes it at
\* once, after the replay
attach(m) ==
  [m EXCEPT !.observers = Append(@,
     IF m.subject = "stopped"
     THEN [state |-> "completed", out |-> replay(m) \o <<Complete_>>]
     ELSE [state |-> "open", out |-> replay(m)])]

\* refCount(): the subscriber attaches to the Subject and, unless that
\* completed it, the source is connected
refCountSubscribe(m) ==
  LET m1 == attach(getSubject(m))
  IN IF m1.subject = "stopped" THEN m1 ELSE connect(m1)

\* shareReplay(1): the first subscriber creates the ReplaySubject and
\* subscribes to the source; every subscriber attaches to the ReplaySubject
shareReplaySubscribe(m) ==
  attach(IF m.subject = "none" THEN connect(getSubject(m)) ELSE m)

\* (variant) refCount() keeps the connection when the last subscriber leaves
refCountUnsubscribeKeeps(m, s) ==
  [m EXCEPT !.observers[s].state = "unsubscribed"]

\* refCount(): the last subscriber to leave unsubscribes the source
refCountUnsubscribe(m, s) ==
  LET m1 == [m EXCEPT !.observers[s].state = "unsubscribed"]
  IN IF Open(m1) = 0 THEN [m1 EXCEPT !.connection = FALSE] ELSE m1

\* (variant) shareReplay(1) counting references
shareReplayUnsubscribeCounted(m, s) ==
  LET m1 == [m EXCEPT !.observers[s].state = "unsubscribed"]
  IN IF Open(m1) = 0
     THEN [m1 EXCEPT !.connection = FALSE, !.subject = "none"] ELSE m1

\* shareReplay(1): a subscriber that leaves only detaches itself
shareReplayUnsubscribe(m, s) ==
  [m EXCEPT !.observers[s].state = "unsubscribed"]

\* the source pushes a value: the Subject passes it to its subscribers, a
\* ReplaySubject(1) keeps it
sourceNext(m, v) ==
  [m EXCEPT
     !.pos = @ + 1,
     !.buffer = IF Replays(m.kind) THEN v ELSE @,
     !.observers = [s \in DOMAIN @ |->
        IF @[s].state = "open"
        THEN [@[s] EXCEPT !.out = Append(@, Next_(v))] ELSE @[s]]]

\* the source completes: the Subject completes its subscribers and is stopped
sourceComplete(m) ==
  [m EXCEPT
     !.connection = FALSE,
     !.srcDone = TRUE,
     !.subject = "stopped",
     !.observers = [s \in DOMAIN @ |->
        IF @[s].state = "open"
        THEN [state |-> "completed", out |-> Append(@[s].out, Complete_)]
        ELSE @[s]]]

\* expectObservable(producer, subscriptionMarble): one more subscriber
MCSubscribe ==
  /\ Len(mc.observers) < MaxObservers
  /\ mc' = IF mc.kind = "shareReplay" THEN shareReplaySubscribe(mc)
           ELSE refCountSubscribe(mc)
  /\ UNCHANGED <<wvars, pvars, cl, sm>>

\* the ! of a subscription marble: a subscriber leaves
MCUnsubscribe ==
  /\ \E s \in DOMAIN mc.observers :
       /\ mc.observers[s].state = "open"
       /\ mc' = IF mc.kind = "shareReplay" THEN shareReplayUnsubscribe(mc, s)
                ELSE refCountUnsubscribe(mc, s)
  /\ UNCHANGED <<wvars, pvars, cl, sm>>

\* the cold source pushes its next value to the subscription it has
MCNext ==
  /\ mc.connection
  /\ mc.pos < MaxValues
  /\ mc' = sourceNext(mc, ToString(mc.pos + 1))
  /\ UNCHANGED <<wvars, pvars, cl, sm>>

\* the cold source completes
MCComplete ==
  /\ mc.connection
  /\ mc' = sourceComplete(mc)
  /\ UNCHANGED <<wvars, pvars, cl, sm>>

InitMulticast ==
  /\ Idle /\ cl = CombineLatest("none") /\ sm = SwitchMap
  /\ mc \in {Multicast(k) : k \in Kinds}
NextMulticast ==
  \/ MCSubscribe
  \/ MCUnsubscribe
  \/ MCNext
  \/ MCComplete

(* ------------------------------ switchMap ------------------------------- *)
\* an inner subscription ends: finalize() runs when it is torn down
end(m, i, how) ==
  [m EXCEPT !.innerState[i] = how,
            !.inner = @ \ {i},
            !.log = @ \o <<[op |-> how, inner |-> i],
                           [op |-> "finalize", inner |-> i]>>]

\* the inner subscriptions the operator holds are unsubscribed
RECURSIVE unsubscribeInner(_)
unsubscribeInner(m) ==
  IF m.inner = {} THEN m
  ELSE unsubscribeInner(end(m, CHOOSE i \in m.inner : TRUE, "unsubscribed"))

\* the inner observable selected by the outer value is subscribed
subscribeInner(m, i) ==
  [m EXCEPT !.innerState[i] = "subscribed",
            !.inner = @ \cup {i},
            !.log = Append(@, [op |-> "subscribe", inner |-> i])]

\* the output completes once the outer has completed and no inner is left
completeIfDone(m) ==
  IF m.outer = "completed" /\ m.inner = {} /\ m.outState = "open"
  THEN [m EXCEPT !.outState = "completed", !.out = Append(@, Complete_)]
  ELSE m

\* (variant) the previous inner observable is kept, as mergeMap does
switchMapMerges(m) ==
  subscribeInner([m EXCEPT !.count = @ + 1], m.count + 1)

\* an outer value: the previous inner subscription is unsubscribed, then the
\* inner observable projected from the value is subscribed
switchMap(m) ==
  subscribeInner(unsubscribeInner([m EXCEPT !.count = @ + 1]), m.count + 1)

\* (variant) the output completes with the outer observable
outerCompleteEnds(m) ==
  LET m1 == unsubscribeInner([m EXCEPT !.outer = "completed"])
  IN [m1 EXCEPT !.outState = "completed", !.out = Append(@, Complete_)]

\* the outer observable completes
outerComplete(m) == completeIfDone([m EXCEPT !.outer = "completed"])

\* inner observable i pushes a value: it is passed on
innerNext(m, i) ==
  [m EXCEPT !.pushed[i] = @ + 1,
            !.out = Append(@, Next_(<<i, m.pushed[i] + 1>>))]

\* inner observable i completes
innerComplete(m, i) == completeIfDone(end(m, i, "completed"))

\* the outer or an inner observable fails: the output fails and everything
\* is unsubscribed
fail(m, e) ==
  [unsubscribeInner(m) EXCEPT !.outState = "errored",
                              !.out = Append(@, Error_(e))]

\* expect(o.pipe(operators)).toBeObservable(e): the output is subscribed
SMSubscribe ==
  /\ sm.outState = "idle"
  /\ sm' = [sm EXCEPT !.outState = "open", !.outer = "live"]
  /\ UNCHANGED <<wvars, pvars, cl, mc>>

OuterNext ==
  /\ sm.outState = "open" /\ sm.outer = "live"
  /\ sm.count < MaxOuter
  /\ sm' = switchMap(sm)
  /\ UNCHANGED <<wvars, pvars, cl, mc>>

OuterComplete ==
  /\ sm.outState = "open" /\ sm.outer = "live"
  /\ sm' = outerComplete(sm)
  /\ UNCHANGED <<wvars, pvars, cl, mc>>

OuterError ==
  /\ sm.outState = "open" /\ sm.outer = "live"
  /\ sm' = fail([sm EXCEPT !.outer = "errored"], ErrOf(0))
  /\ UNCHANGED <<wvars, pvars, cl, mc>>

\* a cold inner observable plays while it is subscribed
InnerNext ==
  /\ \E i \in 1..MaxOuter :
       /\ sm.innerState[i] = "subscribed"
       /\ sm.pushed[i] < MaxInner
       /\ sm' = innerNext(sm, i)
  /\ UNCHANGED <<wvars, pvars, cl, mc>>

InnerComplete ==
  /\ \E i \in 1..MaxOuter :
       /\ sm.innerState[i] = "subscribed"
       /\ sm' = innerComplete(sm, i)
  /\ UNCHANGED <<wvars, pvars, cl, mc>>

InnerError ==
  /\ \E i \in 1..MaxOuter :
       /\ sm.innerState[i] = "subscribed"
       /\ sm' = fail(end(sm, i, "errored"), ErrOf(i))
  /\ UNCHANGED <<wvars, pvars, cl, mc>>

\* the subscriber of the output unsubscribes (oSubsM = '^-----------!')
SMUnsubscribe ==
  /\ sm.outState = "open"
  /\ sm' = [unsubscribeInner(sm) EXCEPT
              !.outState = "unsubscribed",
              !.outer = IF @ = "live" THEN "unsubscribed" ELSE @]
  /\ UNCHANGED <<wvars, pvars, cl, mc>>

InitSwitchMap ==
  /\ Idle /\ cl = CombineLatest("none") /\ mc = Multicast("subject")
  /\ sm = SwitchMap
NextSwitchMap ==
  \/ SMSubscribe
  \/ OuterNext
  \/ OuterComplete
  \/ OuterError
  \/ InnerNext
  \/ InnerComplete
  \/ InnerError
  \/ SMUnsubscribe

vars == <<wvars, pvars, lvars>>
Init == WInit /\ Unpaired /\ PIdle /\ LIdle
\* the same sources drive waitUntil(g1, .., gn) and a twin whose gates are
\* passed in another order
InitPermuted == WInit /\ perm \in Perms /\ twin = World /\ PIdle /\ LIdle
Next ==
  \/ Subscribe
  \/ SourceNext
  \/ SourceComplete
  \/ SourceError
  \/ Unsubscribe
  \/ Tick
Spec == Init /\ [][Next]_vars
\* subscriptions one after the other, within one frame
NextResubscribe ==
  \/ Subscribe
  \/ SourceNext
  \/ SourceComplete
  \/ SourceError
  \/ Unsubscribe
  \/ Resubscribe
SpecResubscribe == Init /\ [][NextResubscribe]_vars
\* the two orders side by side, within one frame
NextPermuted ==
  \/ Subscribe
  \/ SourceNext
  \/ SourceComplete
  \/ SourceError
  \/ Unsubscribe
SpecPermuted == InitPermuted /\ [][NextPermuted]_vars
\* a primary that pushes several notifications while it is subscribed
NextSynchronous ==
  \/ SubscribeSynchronous
  \/ SourceNext
  \/ SourceComplete
  \/ SourceError
  \/ Unsubscribe
SpecSynchronous == Init /\ [][NextSynchronous]_vars
\* Subscribe with sources that push nothing while they are subscribed
SubscribeQuiet ==
  /\ outState = "idle"
  /\ Install(SubscribeFrom([World EXCEPT !.outState = "open"],
                           0, Cardinality(observables), [i \in Srcs |-> <<>>],
                           now))
  /\ twin' = twin
  /\ UNCHANGED <<now, scripted, fired, observables, past, perm, pvars, lvars>>

\* the output is eventually subscribed, as the test does with expect(o): the
\* subscription cannot be put off for ever; the sources push in any order,
\* within one frame
NextLive ==
  \/ Subscribe
  \/ SourceNext
  \/ SourceComplete
  \/ SourceError
  \/ Unsubscribe
SpecLive == Init /\ [][NextLive]_vars /\ WF_vars(SubscribeQuiet)
SpecPipeIf == PInit /\ [][PNext]_vars
\* a program that uses either combinator: the steps of waitUntil while pipeIf
\* is not in use, the steps of pipeIf while waitUntil is not in use; the
\* variable read by pipeIf's predicate keeps the value it starts with
InitEither == Init \/ PInit
NextEither ==
  \/ PIdle /\ Subscribe
  \/ PIdle /\ SourceNext
  \/ PIdle /\ SourceComplete
  \/ PIdle /\ SourceError
  \/ PIdle /\ Unsubscribe
  \/ PIdle /\ Tick
  \/ WIdle /\ Build
  \/ WIdle /\ PSubscribe
  \/ WIdle /\ UpstreamNext
  \/ WIdle /\ UpstreamComplete
  \/ WIdle /\ UpstreamError
  \/ WIdle /\ PTick
SpecEither == InitEither /\ [][NextEither]_vars
SpecCombineLatest == InitCombineLatest /\ [][NextCombineLatest]_vars
SpecMulticast == InitMulticast /\ [][NextMulticast]_vars
SpecSwitchMap == InitSwitchMap /\ [][NextSwitchMap]_vars

(* ======================== properties =================================== *)
\* notifications the output received in this step
NewOut == SubSeq(out', Len(out) + 1, Len(out'))
NewValues == SelectSeq(NewOut, LAMBDA e : e.k = "N")
HasValue(log) == \E j \in 1..Len(log) : log[j].k = "N"
RECURSIVE LastValue(_)
LastValue(log) ==
  IF log = <<>> THEN NONE
  ELSE IF log[Len(log)].k = "N" THEN log[Len(log)].v
  ELSE LastValue(SubSeq(log, 1, Len(log) - 1))
AllGatesEmitted == \A g \in observables : emitted[g]
\* in this step gate g pushes its first value, as the last outstanding gate
LastGateOpens(g) ==
  /\ outState = "open"
  /\ ~emitted[g] /\ emitted'[g]
  /\ \A h \in observables \ {g} : emitted[h]
\* in this step source i raises an error
Raises(i) == srcState[i] = "live" /\ srcState'[i] = "errored"

\* C1: the output emits no value in a step after which some gate has still not
\* produced its first value, whatever the order in which the gates emit.
C1_NoValueBeforeAllGates ==
  [][NewValues # <<>> => \A g \in observables : emitted'[g]]_vars
\* two gates that emitted in the reverse of their argument order, then a value
C1_Witness ==
  /\ observables = 1..2
  /\ emitted[2] /\ last = [src |-> 1, k |-> "N"]
  /\ events = 3 /\ Len(primLog) = 1 /\ Len(out) = 1 /\ out[1].k = "N"

\* C3 (as stated): every value of the output is emitted in a frame in which
\* the primary pushed a value.
C3_Original ==
  \A j \in 1..Len(out) :
    out[j].k = "N" =>
      \E n \in 1..Len(primLog) : primLog[n].k = "N" /\ primLog[n].t = out[j].t
\* C3 (amended): the output emits in a step only if the primary pushed in that
\* step, or the last outstanding gate pushed its first value while the primary
\* already had a value; in the latter case it emits exactly the primary's
\* latest value, once. A gate that is not the last outstanding one, or that
\* has emitted before, never makes the output emit.
C3_Amended ==
  [][/\ (NewValues # <<>> /\ primLog' = primLog) =>
          /\ \E g \in observables : LastGateOpens(g)
          /\ NewValues = <<[t |-> now, k |-> "N", v |-> LastValue(primLog)]>>
     /\ \A g \in observables :
          (LastGateOpens(g) /\ HasValue(primLog) /\ primLog' = primLog)
            => Len(NewValues) = 1]_vars
\* the last gate opened the output in a frame without a primary value
C3_Witness ==
  /\ observables # {}
  /\ ~scripted
  /\ Len(out) = 1 /\ out[1].k = "N" /\ out[1].t = 1
  /\ \A n \in 1..Len(primLog) : primLog[n].t = 0

\* C4: when the last outstanding gate pushes its first value and the primary
\* has already emitted, the output emits the primary's most recent value in
\* that step as its first notification; every later primary value is
\* forwarded; the marble test yields ------y--z|.
C4_LatestAtOpening ==
  [][/\ \A g \in observables :
          (LastGateOpens(g) /\ HasValue(primLog) /\ primLog' = primLog) =>
            /\ out = <<>>
            /\ Len(out') >= 1
            /\ out'[1] = [t |-> now, k |-> "N", v |-> LastValue(primLog)]
     /\ (/\ outState = "open" /\ AllGatesEmitted
         /\ Len(primLog') = Len(primLog) + 1
         /\ primLog'[Len(primLog')].k = "N") =>
            out' = Append(out, primLog'[Len(primLog')])
     /\ (scripted' /\ Len(primLog') = 4) => out' = TestExpected]_vars
C4_Witness == scripted /\ out = TestExpected /\ outState = "completed"

\* C7 (as stated): when any source raises an error while the output is open,
\* the output fails in that step with that error.
C7_Original ==
  [][\A i \in Srcs :
       (outState = "open" /\ Raises(i)) =>
          /\ outState' = "errored"
          /\ out' = Append(out, At(now, Error_(ErrOf(i))))]_vars
\* C7 (amended): when the primary, or a gate that has not yet pushed its first
\* value, raises an error while the output is being subscribed or is open, the
\* output fails in that step with that error as its last notification and
\* every source is unsubscribed; a failed output receives nothing more.
C7_Amended ==
  [][/\ \A i \in Srcs :
          (/\ outState \in {"idle", "open"} /\ Raises(i)
           /\ (i = 0 \/ ~emitted'[i])) =>
             /\ outState' = "errored"
             /\ Len(out') > Len(out)
             /\ out'[Len(out')] = At(now, Error_(ErrOf(i)))
             /\ outState = "open" => out' = Append(out, out'[Len(out')])
             /\ \A j \in Srcs : ~subscribed'[j]
     /\ outState = "errored" => (out' = out /\ outState' = "errored")]_vars
\* the primary failed after values were forwarded, and pushed-after sources
C7_Witness ==
  /\ outState = "errored"
  /\ Len(out) >= 2 /\ out[Len(out)].v = ErrOf(0)
  /\ \E g \in observables : last = [src |-> g, k |-> "N"]

\* C8: when a gate raises an error before its first value while the output is
\* being subscribed or is open, the output fails in that step with that error and that error is all
\* the output ever receives, even when the other gates have emitted.
C8_GateErrorBeforeFirst ==
  [][/\ \A g \in observables :
          (outState \in {"idle", "open"} /\ Raises(g) /\ ~emitted'[g]) =>
             /\ outState' = "errored"
             /\ out' = <<At(now, Error_(ErrOf(g)))>>
     /\ (outState = "errored" /\ ~HasValue(out)) => ~HasValue(out')]_vars
\* gate 2 failed unsatisfied while gate 1 was satisfied and the primary had
\* emitted, and the primary went on pushing
C8_Witness ==
  /\ observables = 1..2
  /\ emitted[1] /\ ~emitted[2] /\ srcState[2] = "errored"
  /\ out = <<[t |-> 0, k |-> "E", v |-> ErrOf(2)]>>
  /\ Len(primLog) = 2 /\ primLog[1].t = 0 /\ primLog[2].t = 1
  /\ primLog[2].k = "N"

\* C9: a gate that has pushed its first value is no longer subscribed, and
\* nothing it pushes afterwards (value, error, completion) changes the output
\* or the operator.
C9_GateReleased ==
  [][/\ \A g \in observables : emitted'[g] => ~subscribed'[g]
     /\ \A g \in observables :
          (emitted[g] /\ events' = events + 1 /\ last'.src = g) =>
             UNCHANGED <<out, outState, values, active, subscribed>>]_vars
\* a released gate pushed again (an error) while the primary keeps running
C9_Witness ==
  /\ outState = "open" /\ srcState[0] = "live" /\ HasValue(out)
  /\ \E g \in observables :
       emitted[g] /\ last.src = g /\ srcState[g] = "errored"

\* C10: with no gates, the output receives exactly the notifications of the
\* primary, in the same frames and order, up to its unsubscription.
C10_ZeroGatesPassThrough ==
  observables = {} =>
    /\ outState \in {"open", "completed", "errored"} => out = primLog
    /\ outState = "unsubscribed" =>
         (Len(out) <= Len(primLog) /\ out = SubSeq(primLog, 1, Len(out)))
C10_Witness ==
  /\ observables = {}
  /\ outState = "completed"
  /\ Len(out) = 3 /\ out[1].v = out[2].v /\ out[2].t = 1

(* ------------------------ pipeIf properties ---------------------------- *)
\* the event sequence of truePipe(upstream) / falsePipe(upstream)
Kept(e) == e.k # "N" \/ e.v # "y"
Converted(c, e) ==
  IF e.k # "N" THEN e
  ELSE [e EXCEPT !.v = IF c THEN toUpperCase(e.v) ELSE toLowerCase(e.v)]
PipeOf(c, log) ==
  LET kept == IF c THEN SelectSeq(log, Kept) ELSE log
  IN [j \in 1..Len(kept) |-> Converted(c, kept[j])]
\* the output of a subscription as a marble string of six frames
Marble(sub) ==
  [f \in 1..Len(PipeMarble) |->
     IF \E j \in 1..Len(sub.out) : sub.out[j].t = sub.t0 + f - 1
     THEN LET j == CHOOSE j \in 1..Len(sub.out) : sub.out[j].t = sub.t0 + f - 1
          IN IF sub.out[j].k = "N" THEN sub.out[j].v ELSE "|"
     ELSE "-"]

\* C2: the output of every subscription is the event sequence of
\* truePipe(upstream) if the predicate held when it subscribed and of
\* falsePipe(upstream) otherwise, whatever the predicate was at build time;
\* X-y-z| gives X---Z| and x-y-z| respectively.
C2_BranchBySubscriptionTime ==
  \A s \in DOMAIN psubs :
    /\ psubs[s].thrown = "none" =>
         psubs[s].out = PipeOf(psubs[s].condAtSub, psubs[s].upLog)
    /\ (scripted /\ psubs[s].state = "completed") =>
         Marble(psubs[s]) = IF psubs[s].condAtSub THEN PipeExpectedTrue
                                                  ELSE PipeExpectedFalse
\* both runs of the test: built with condition = false, subscribed with either
C2_Witness ==
  /\ scripted /\ ~condAtBuild /\ Len(psubs) = 2
  /\ psubs[1].state = "completed" /\ psubs[2].state = "completed"
  /\ psubs[1].condAtSub /\ ~psubs[2].condAtSub

\* C5: the predicate is called exactly once in each step that creates a
\* subscription and in no other step (not when the pipeline is built).
C5_EvaluatedOncePerSubscription ==
  [][/\ Len(psubs') = Len(psubs) + 1 => condEvals' = condEvals + 1
     /\ Len(psubs') = Len(psubs) => condEvals' = condEvals
     /\ condEvals' = Len(psubs')]_vars
C5_Witness == pstage = "applied" /\ condEvals = 2 /\ Len(psubs) = 2

\* C6: no step changes the branch of an existing subscription, and what a
\* subscription receives in a step is its upstream notification put through
\* the pipe selected by the predicate's value at its own subscription.
C6_BranchFixedPerSubscription ==
  [][\A s \in DOMAIN psubs :
       /\ psubs'[s].branch = psubs[s].branch
       /\ Len(psubs'[s].upLog) = Len(psubs[s].upLog) + 1 =>
            psubs'[s].out = psubs[s].out \o
              PipeOf(psubs[s].condAtSub,
                     <<psubs'[s].upLog[Len(psubs'[s].upLog)]>>)]_vars
\* the variable changed while subscription 1 was active: subscription 2 took
\* the other branch and subscription 1 still received values afterwards
C6_Witness ==
  /\ Len(psubs) = 2
  /\ psubs[1].condAtSub # psubs[2].condAtSub
  /\ psubs[1].condAtSub # condition
  /\ \E j \in 1..Len(psubs[1].out) :
       psubs[1].out[j].k = "N" /\ psubs[1].out[j].t > psubs[2].t0
  /\ HasValue(psubs[2].out)

(* ------------------------ pipeIf, continued ----------------------------- *)
\* the calls made in this step
NewCalls == SubSeq(calls', Len(calls) + 1, Len(calls'))
SelectedPipe(c) == IF c THEN "truePipe" ELSE "falsePipe"

\* C16: a subscription during which the predicate or the selected pipe threw
\* has received exactly one notification, the error carrying the exception,
\* at the frame of the subscription; the exception did not leave subscribe()
\* and the upstream was never subscribed.
C16_ThrowBecomesError ==
  \A s \in DOMAIN psubs :
    psubs[s].thrown # "none" =>
      /\ psubs[s].state = "errored"
      /\ psubs[s].out = <<At(psubs[s].t0, Error_(Thrown))>>
      /\ psubs[s].upLog = <<>>
\* the true pipe threw in one subscription, the false pipe in the next
C16_Witness ==
  /\ Len(psubs) = 2
  /\ psubs[1].thrown = "pipe" /\ psubs[2].thrown = "pipe"
  /\ psubs[1].branch = "true" /\ psubs[2].branch = "false"
  /\ now > psubs[2].t0

\* C17: a step that creates no subscription (building the pipeline included)
\* calls nothing; a step that creates one calls the predicate first, then
\* only the pipe the predicate selected, then subscribes to the result once;
\* a throwing call ends the sequence. The other pipe is never called.
C17_Lazy ==
  [][/\ Len(psubs') = Len(psubs) => (calls' = calls /\ condEvals' = condEvals)
     /\ Len(psubs') = Len(psubs) + 1 =>
          LET thr == psubs'[Len(psubs')].thrown
          IN NewCalls =
               CASE thr = "condition" -> <<"condition">>
                 [] thr = "pipe" -> <<"condition", SelectedPipe(condition)>>
                 [] OTHER -> <<"condition", SelectedPipe(condition),
                               "subscribe">>
     /\ pstage' = "none" => calls' = <<>>]_vars
\* two subscriptions that took different branches
C17_Witness ==
  /\ Len(psubs) = 2 /\ pevents > 0
  /\ calls = <<"condition", "truePipe", "subscribe",
               "condition", "falsePipe", "subscribe">>

\* C18: a subscription whose upstream errors or completes before any value
\* receives exactly that error or completion, at that frame, whichever branch
\* the predicate selected.
C18_EmptyUpstream ==
  \A s \in DOMAIN psubs :
    (Len(psubs[s].upLog) >= 1 /\ psubs[s].upLog[1].k # "N") =>
       /\ psubs[s].out = psubs[s].upLog
       /\ Len(psubs[s].out) = 1
       /\ psubs[s].state = IF psubs[s].out[1].k = "E" THEN "errored"
                                                     ELSE "completed"
\* the true branch saw an immediate error, the false branch an immediate
\* completion
C18_Witness ==
  /\ Len(psubs) = 2
  /\ psubs[1].branch = "true" /\ psubs[2].branch = "false"
  /\ psubs[1].out = <<At(psubs[1].t0, Error_(ErrOf(0)))>>
  /\ Len(psubs[2].out) = 1 /\ psubs[2].out[1].k = "C"

PrimaryCompletes == srcState[0] = "live" /\ srcState'[0] = "completed"
Terminated(log) == log # <<>> /\ log[Len(log)].k # "N"
ValuesOf(log) ==
  LET ns == SelectSeq(log, LAMBDA e : e.k = "N")
  IN [j \in 1..Len(ns) |-> ns[j].v]
IsSuffix(a, b) == Len(a) <= Len(b) /\ a = SubSeq(b, Len(b) - Len(a) + 1, Len(b))
IsInfix(a, b) ==
  \E k \in 0..(Len(b) - Len(a)) : a = SubSeq(b, k + 1, k + Len(a))

\* C11: when the primary completes while the output is open and every gate
\* has pushed its first value, the output completes in that step.
C11_CompletesWithPrimary ==
  [][(outState = "open" /\ AllGatesEmitted /\ PrimaryCompletes) =>
       /\ outState' = "completed"
       /\ out' = Append(out, At(now, Complete_))]_vars
\* gates satisfied, values forwarded, then the primary's completion
C11_Witness ==
  /\ observables = 1..2 /\ AllGatesEmitted
  /\ outState = "completed"
  /\ Len(out) = 2 /\ out[1].k = "N" /\ out[2] = primLog[Len(primLog)]
  /\ out[2].k = "C"

\* C12 (as stated): a completed output has seen the first value of every gate.
C12_Original == outState = "completed" => AllGatesEmitted
\* C12 (amended): the output completes only when the primary has completed and
\* every gate has pushed its first value or completed without one; if some
\* gate completed without a value, the completion is all the output receives.
C12_Amended ==
  outState = "completed" =>
    /\ srcState[0] = "completed"
    /\ \A g \in observables : emitted[g] \/ srcState[g] = "completed"
    /\ ~AllGatesEmitted => (Len(out) = 1 /\ out[1].k = "C")
\* a gate completed without a value, the primary emitted and completed
C12_Witness ==
  /\ outState = "completed"
  /\ \E g \in observables : ~emitted[g] /\ srcState[g] = "completed"
  /\ HasValue(primLog)
  /\ Len(out) = 1

\* C13: once the output has received an error or a completion it receives
\* nothing more and stays failed or completed, whatever the sources push.
C13_TerminalStates ==
  [][/\ Terminated(out) => out' = out
     /\ outState \in {"completed", "errored"} => outState' = outState
     /\ Terminated(out') <=> outState' \in {"completed", "errored"}]_vars
\* the output failed on a gate's error and the primary pushed a value later
C13_Witness ==
  /\ outState = "errored" /\ Len(out) = 1
  /\ out[1].v # ErrOf(0)
  /\ last = [src |-> 0, k |-> "N"]
  /\ primLog[Len(primLog)].t > out[1].t

\* C15: the step that unsubscribes the output leaves no source subscribed,
\* and afterwards no source is subscribed and the output receives nothing.
C15_UnsubscribeReleasesAll ==
  [][/\ (outState = "open" /\ outState' = "unsubscribed") =>
          \A i \in Srcs : ~subscribed'[i]
     /\ outState = "unsubscribed" =>
          /\ \A i \in Srcs : ~subscribed'[i]
          /\ out' = out /\ outState' = "unsubscribed"]_vars
\* unsubscribed while a gate was still awaited; that gate then pushed a value
C15_Witness ==
  /\ outState = "unsubscribed"
  /\ values[0] # NONE
  /\ \E g \in observables : values[g] = NONE /\ emitted[g]

\* C20: the values of the output are a contiguous part of the primary's
\* values, in order (a suffix unless the output was unsubscribed); every
\* output value but the first is the primary's notification of the same
\* frame; no value of a gate appears.
C20_SuffixOfPrimary ==
  LET ov == ValuesOf(out)
      pv == ValuesOf(primLog)
      on == SelectSeq(out, LAMBDA e : e.k = "N")
      pn == SelectSeq(primLog, LAMBDA e : e.k = "N")
  IN /\ outState # "unsubscribed" => IsSuffix(ov, pv)
     /\ IsInfix(ov, pv)
     /\ \A j \in 2..Len(on) : \E n \in 1..Len(pn) : pn[n] = on[j]
     /\ \A j \in 1..Len(ov) : \A g \in observables : ov[j] \notin ValsOf(g)
\* two primary values dropped, then the opening value and a later one
C20_Witness ==
  /\ observables # {} /\ ~scripted
  /\ Len(ValuesOf(primLog)) = 3 /\ Len(ValuesOf(out)) = 2
  /\ out[1].v # primLog[1].v

\* in this step the output is subscribed (for the first time or again)
SubscribeStep == (outState = "idle" /\ outState' # "idle") \/ past' # past

C21_CompletesWhenLastGateOpens ==
  [][/\ (/\ outState = "open" /\ PrimaryCompletes
         /\ \E g \in observables : ~emitted'[g] /\ srcState'[g] = "live") =>
            (outState' = "open" /\ out' = out)
     /\ \A g \in observables :
          (/\ LastGateOpens(g) /\ srcState[0] = "completed"
           /\ HasValue(primLog)) =>
             /\ out = <<>>
             /\ out' = <<At(now, Next_(LastValue(primLog))),
                         At(now, Complete_)>>
             /\ outState' = "completed"]_vars
\* the primary emitted and completed in frame 0; the second of two gates
\* opened the output in frame 1
C21_Witness ==
  /\ observables = 1..2 /\ ~scripted
  /\ Len(primLog) = 2 /\ primLog[2] = At(0, Complete_)
  /\ Len(out) = 2 /\ out[1].k = "N" /\ out[1].t = 1
  /\ out[2] = At(1, Complete_)

NoSourceError == \A i \in Srcs : srcState[i] # "errored"

\* the output is subscribed, no source has raised an error, every gate has
\* pushed a value and so has the primary
Ready ==
  /\ outState \notin {"idle", "unsubscribed"}
  /\ NoSourceError
  /\ AllGatesEmitted /\ HasValue(primLog)

\* C23: while the output is subscribed and no source has raised an error,
\* once every gate has pushed a value and the primary has pushed a value the
\* output eventually receives a value; and once moreover the primary has
\* completed, the output eventually completes.
C23_Liveness ==
  /\ Ready ~> HasValue(out)
  /\ (Ready /\ srcState[0] = "completed") ~>
       (outState = "completed" /\ HasValue(out))
\* both gates emitted, the primary emitted and completed, without any error;
\* the output forwarded a value and completed
C23_Witness ==
  /\ observables = 1..2 /\ AllGatesEmitted /\ NoSourceError
  /\ srcState[0] = "completed" /\ HasValue(primLog)
  /\ outState = "completed" /\ HasValue(out)
\* C25: neither combinator polls or blocks. The output of waitUntil receives
\* a notification only in a step in which a source pushes or the output is
\* subscribed, and every subscriber of pipeIf receives one only in a step in
\* which the upstream pushes or that subscriber subscribes; the notification
\* carries the time of that step, and a step that only lets time pass
\* delivers nothing.
C25_NoPolling ==
  [][ /\ out' # out =>
           /\ events' > events \/ (outState = "idle" /\ outState' = "open")
           /\ now' = now
           /\ \A j \in 1..Len(NewOut) : NewOut[j].t = now
      /\ \A s \in DOMAIN psubs' :
           LET before == IF s \in DOMAIN psubs THEN psubs[s].out ELSE <<>>
               after == psubs'[s].out
           IN after # before =>
                /\ pevents' > pevents \/ s \notin DOMAIN psubs
                /\ now' = now
                /\ \A j \in (Len(before) + 1)..Len(after) : after[j].t = now
      /\ now' # now => /\ out' = out
                       /\ DOMAIN psubs' = DOMAIN psubs
                       /\ \A s \in DOMAIN psubs : psubs'[s].out = psubs[s].out
    ]_vars
\* time has passed between notifications, and both a waitUntil output and a
\* pipeIf subscriber have notifications later than frame 0 (each in its run)
C25_Witness ==
  \/ /\ ~scripted /\ now = MaxTime /\ Len(out) >= 2
     /\ out[1].t = 0 /\ out[Len(out)].t = MaxTime
     /\ observables # {}
  \/ /\ ~scripted /\ now = MaxTime /\ Len(psubs) >= 1
     /\ Len(psubs[1].out) >= 2
     /\ psubs[1].out[1].t = 0 /\ psubs[1].out[Len(psubs[1].out)].t = MaxTime
\* notifications the subscriber of combineLatest's output received in this step
CLNewOut == SubSeq(cl'.out, Len(cl.out) + 1, Len(cl'.out))
\* in this step input i pushes a notification of kind k
CLPushes(i, k) == cl'.n = cl.n + 1 /\ cl'.last = [src |-> i, k |-> k]
\* the latest value input i has pushed
CLLatest(i) == cl'.log[i][Len(cl'.log[i])]

\* C26: combineLatest([x, y]) alone. No value before each input has pushed
\* one; from then on every value of either input yields exactly the tuple of
\* the inputs' latest values; the output completes with the completion of the
\* last input and at no other moment; an input is unsubscribed at its own
\* completion and not before, while the output is subscribed.
C26_CombineLatest ==
  [][ cl.place = "none" =>
      /\ \A i \in 0..1 :
           (CLPushes(i, "N") /\ cl.outState = "open") =>
             CLNewOut = IF \A j \in 0..1 : cl'.log[j] # <<>>
                        THEN << At(cl'.n, Next_(<<CLLatest(0), CLLatest(1)>>)) >>
                        ELSE <<>>
      /\ (\E j \in 1..Len(CLNewOut) : CLNewOut[j].k = "C") <=>
           /\ cl.outState = "open"
           /\ \E i \in 0..1 : CLPushes(i, "C")
           /\ \A i \in 0..1 : cl'.srcState[i] = "completed"
      /\ \A i \in 0..1 :
           /\ cl'.srcState[i] = "completed" => ~cl'.subscribed[i]
           /\ (cl'.outState = "open" /\ cl'.srcState[i] = "live")
                => cl'.subscribed[i]
    ]_vars
\* as in the test: x, then a and b of y, y completes and is unsubscribed
\* while x stays subscribed, then y of x is combined with b
C26_Witness ==
  /\ cl.place = "none"
  /\ cl.srcState = [i \in 0..1 |-> IF i = 1 THEN "completed" ELSE "live"]
  /\ cl.subscribed = [i \in 0..1 |-> i = 0]
  /\ Len(cl.out) = 3
  /\ cl.out[1].v = <<"x", "a">> /\ cl.out[2].v = <<"x", "b">>
  /\ cl.out[3].v = <<"y", "b">>
\* x was ended by takeUntil, not by its own completion
EndedByNotifier ==
  cl.place = "before" /\ cl.srcState[0] = "live" /\ ~cl.subscribed[0]
                      /\ cl.outState = "open"

\* C27: when the notifier pushes its value, takeUntil after combineLatest
\* completes the output and leaves neither input subscribed; takeUntil before
\* combineLatest, on x, unsubscribes x only: y, if it has not completed, stays
\* subscribed and the output stays open, and every later value of y is
\* delivered together with the last value x pushed (nothing is delivered when
\* x had pushed none).
C27_TakeUntilPlacement ==
  [][ /\ (cl.place = "after" /\ CLPushes(2, "N")) =>
           /\ \A i \in 0..1 : ~cl'.subscribed[i]
           /\ cl'.outState = "completed"
           /\ CLNewOut = << At(cl'.n, Complete_) >>
      /\ (cl.place = "before" /\ CLPushes(2, "N")) =>
           /\ ~cl'.subscribed[0]
           /\ cl.srcState[1] = "live" =>
                /\ cl'.subscribed[1]
                /\ cl'.outState = "open"
                /\ CLNewOut = <<>>
      /\ (EndedByNotifier /\ CLPushes(1, "N")) =>
           /\ cl'.subscribed[1] /\ cl'.outState = "open"
           /\ CLNewOut = IF cl.log[0] = <<>> THEN <<>>
                        ELSE << At(cl'.n, Next_(<<CLLatest(0), CLLatest(1)>>)) >>
      /\ (EndedByNotifier /\ cl.subscribed[1] /\ ~cl'.subscribed[1]) =>
           \/ CLPushes(1, "C") \/ CLPushes(1, "E")
           \/ cl'.outState = "unsubscribed"
    ]_vars
\* takeUntil before combineLatest: x and a were combined, the notifier ended
\* x, and y's next value b is still delivered, with x's last value; or
\* takeUntil after combineLatest: the notifier completed the output after the
\* first tuple and both inputs, neither of them completed, are unsubscribed
C27_Witness ==
  \/ /\ EndedByNotifier /\ cl.subscribed[1]
     /\ cl.n = 4 /\ cl.last = [src |-> 1, k |-> "N"]
     /\ Len(cl.out) = 2
     /\ cl.out[1] = At(2, Next_(<<"x", "a">>))
     /\ cl.out[2] = At(4, Next_(<<"x", "b">>))
  \/ /\ cl.place = "after" /\ cl.last = [src |-> 2, k |-> "N"]
     /\ cl.srcState = [i \in 0..1 |-> "live"]
     /\ cl.subscribed = [i \in 0..1 |-> FALSE]
     /\ cl.out = << At(2, Next_(<<"x", "a">>)), At(3, Complete_) >>
\* in this step one more subscriber subscribes to the shared observable
NewObserver == Len(mc'.observers) = Len(mc.observers) + 1
\* the subscriber that subscribed in this step
Newest == mc'.observers[Len(mc'.observers)]

\* C28: multicast + refCount, with a Subject instance or a Subject factory.
\* The source is subscribed exactly in the steps in which the number of
\* subscribers goes from 0 to 1, and it is subscribed exactly while there are
\* subscribers. A subscriber that arrives after all have left, the source not
\* having completed, starts a further subscription to the source. A
\* subscriber that arrives after the source has completed receives only the
\* completion and starts no subscription with a Subject instance; with a
\* factory it starts a further subscription and waits for the values.
C28_RefCount ==
  [][ mc.kind \in {"subject", "factory"} =>
      /\ mc'.sourceSubs # mc.sourceSubs <=> (Open(mc) = 0 /\ Open(mc') = 1)
      /\ mc'.sourceSubs # mc.sourceSubs => mc'.sourceSubs = mc.sourceSubs + 1
      /\ mc'.connection <=> Open(mc') > 0
      /\ (NewObserver /\ Open(mc) = 0 /\ mc.sourceSubs > 0 /\ ~mc.srcDone) =>
           /\ mc'.sourceSubs = mc.sourceSubs + 1
           /\ Newest = [state |-> "open", out |-> <<>>]
      /\ (NewObserver /\ mc.srcDone) =>
           IF mc.kind = "subject"
           THEN /\ mc'.sourceSubs = mc.sourceSubs /\ ~mc'.connection
                /\ Newest = [state |-> "completed", out |-> <<Complete_>>]
           ELSE /\ mc'.sourceSubs = mc.sourceSubs + 1 /\ mc'.connection
                /\ Newest = [state |-> "open", out |-> <<>>]
    ]_vars
\* with a Subject instance: the first subscriber left early, the second one
\* started a second subscription and saw it complete, the third one got only
\* the completion; with a factory: the second subscriber arrived after the
\* completion and receives the values of a second subscription
C28_Witness ==
  \/ /\ mc.kind = "subject" /\ mc.sourceSubs = 2 /\ Len(mc.observers) = 3
     /\ mc.observers[1].state = "unsubscribed"
     /\ mc.observers[2] =
          [state |-> "completed", out |-> <<Next_("1"), Complete_>>]
     /\ mc.observers[3] = [state |-> "completed", out |-> <<Complete_>>]
  \/ /\ mc.kind = "factory" /\ mc.sourceSubs = 2 /\ Len(mc.observers) = 2
     /\ mc.observers[1] =
          [state |-> "completed", out |-> <<Next_("1"), Complete_>>]
     /\ mc.observers[2] = [state |-> "open", out |-> <<Next_("1")>>]
\* in this step the last subscriber leaves while the source has not completed
LastLeaves == Open(mc) > 0 /\ Open(mc') = 0 /\ ~mc'.srcDone
\* what a subscriber of shareReplay(1) is handed at once: the last value the
\* source pushed, if any
Cached == IF mc.pos = 0 THEN <<>> ELSE <<Next_(ToString(mc.pos))>>

\* C29: shareReplay(1) subscribes to its source once at most, whatever the
\* subscribers do; it keeps the subscription when its last subscriber leaves
\* before the source has completed; a later subscriber is handed the last
\* value at once, and the completion too when the source has completed. With
\* publishReplay(1) + refCount the source is unsubscribed when the last
\* subscriber leaves, and the next subscriber starts a second subscription.
C29_ShareReplay ==
  [][ /\ mc.kind = "shareReplay" =>
           /\ mc'.sourceSubs # mc.sourceSubs =>
                (mc.sourceSubs = 0 /\ mc'.sourceSubs = 1)
           /\ LastLeaves => (mc'.connection /\ mc'.sourceSubs = 1)
           /\ (NewObserver /\ mc.sourceSubs > 0) =>
                Newest = IF mc.srcDone
                         THEN [state |-> "completed",
                               out |-> Cached \o <<Complete_>>]
                         ELSE [state |-> "open", out |-> Cached]
      /\ mc.kind = "publishReplay" =>
           /\ LastLeaves => ~mc'.connection
           /\ (NewObserver /\ Open(mc) = 0 /\ mc.sourceSubs > 0
                 /\ ~mc.srcDone) =>
                (mc'.sourceSubs = mc.sourceSubs + 1 /\ mc'.connection)
    ]_vars
\* the sequence of the tests: the first subscriber leaves before the value,
\* the second one receives the value and the completion, the third one
\* arrives after the completion and is handed both; shareReplay(1) has
\* subscribed to the source once, publishReplay(1) + refCount twice
C29_Witness ==
  /\ Len(mc.observers) = 3
  /\ mc.observers[1] = [state |-> "unsubscribed", out |-> <<>>]
  /\ mc.observers[2] =
       [state |-> "completed", out |-> <<Next_("1"), Complete_>>]
  /\ mc.observers[3] =
       [state |-> "completed", out |-> <<Next_("1"), Complete_>>]
  /\ \/ mc.kind = "shareReplay" /\ mc.sourceSubs = 1
     \/ mc.kind = "publishReplay" /\ mc.sourceSubs = 2
\* the inner observables that are subscribed, by their subscription logs
SubscribedInner == {i \in 1..MaxOuter : sm.innerState[i] = "subscribed"}

\* C30: switchMap. At most one inner observable is subscribed at a time; an
\* inner observable is subscribed only after every earlier one has ended, by
\* completing or by being unsubscribed, and has been finalized; the output
\* has completed only if the outer observable has completed, no inner one is
\* subscribed and the last inner one, if any, has completed.
C30_SwitchMap ==
  /\ Cardinality(SubscribedInner) <= 1
  /\ \A p \in DOMAIN sm.log :
       sm.log[p].op = "subscribe" =>
         \A j \in 1..(sm.log[p].inner - 1) :
           \E q \in 1..(p - 1) :
             /\ sm.log[q] = [op |-> "finalize", inner |-> j]
             /\ \E r \in 1..(q - 1) :
                  /\ sm.log[r].inner = j
                  /\ sm.log[r].op \in {"unsubscribed", "completed"}
  /\ sm.outState = "completed" =>
       /\ sm.outer = "completed"
       /\ SubscribedInner = {}
       /\ sm.count > 0 => sm.innerState[sm.count] = "completed"
       /\ sm.out[Len(sm.out)] = Complete_
\* as in the test: x and y are each unsubscribed and finalized when the next
\* outer value arrives, after one value; the outer completes while z is
\* subscribed; the output completes when z does
C30_Witness ==
  /\ sm.count = 3 /\ sm.outState = "completed"
  /\ sm.innerState = [i \in 1..MaxOuter |->
                        IF i = 3 THEN "completed" ELSE "unsubscribed"]
  /\ sm.out = <<Next_(<<1, 1>>), Next_(<<2, 1>>), Next_(<<3, 1>>), Complete_>>
  /\ sm.log = << [op |-> "subscribe", inner |-> 1],
                 [op |-> "unsubscribed", inner |-> 1],
                 [op |-> "finalize", inner |-> 1],
                 [op |-> "subscribe", inner |-> 2],
                 [op |-> "unsubscribed", inner |-> 2],
                 [op |-> "finalize", inner |-> 2],
                 [op |-> "subscribe", inner |-> 3],
                 [op |-> "completed", inner |-> 3],
                 [op |-> "finalize", inner |-> 3] >>
====
